---- MODULE Spec2Model ----
(***************************************************************************)
(* StackedRNNCells (keras_core/layers/rnn/stacked_rnn_cells.py): a stack   *)
(* of RNN cells behaving as a single cell.  The model keeps one composite  *)
(* (its cells, the cells' built flags, its own built flag), the config     *)
(* mapping a caller holds, and the composite from_config produced.         *)
(***************************************************************************)
EXTENDS Integers, Sequences, FiniteSets, TLC

VARIABLES
    status,     \* "new": no composite yet; "ok": constructed; "error": __init__ raised
    cells,      \* self.cells (meaningful when cellsAssigned)
    cellsAssigned, \* whether `self.cells = cells` (line 48) has run
    kwargs,     \* the base Layer configuration given to __init__
    cellBuilt,  \* cell.built of each cell, by position
    built,      \* self.built
    buildLog,   \* by position: the build-hook invocations [shape, ok] so far
    buildCount, \* number of build() calls so far
    stepLog,    \* the cell step invocations of the latest call(), in order
    config,     \* the config mapping the caller holds (get_config's result)
    restored,   \* the composite the latest from_config returned, if any
    ret         \* what the latest operation returned or raised

vars == <<status, cells, cellsAssigned, kwargs, cellBuilt, built, buildLog,
          buildCount, stepLog, config, restored, ret>>

(***************************************************************************)
(* Bounds                                                                  *)
(***************************************************************************)
MaxCells == 2       \* longest cell sequence
MaxBuilds == 2      \* build() calls per composite
MaxBatch == 3       \* batch sizes 1..MaxBatch

Trainings == BOOLEAN
Inputs == {1}
InputShapes == {<<1, 5>>, <<2, 5>>}

(***************************************************************************)
(* Cells.  A cell is an arbitrary object; what the composite reads of it   *)
(* is whether it has `call` and `state_size`, whether it is a Layer,       *)
(* whether its call signature has `training`, its state_size, its          *)
(* output_size and its get_initial_state.  state_size is a scalar          *)
(* [int |-> n] or a tuple [tuple |-> <<n, ...>>].                          *)
(***************************************************************************)
None == -1

IntSize(n) == [int |-> n]
TupleSize(s) == [tuple |-> s]
IsListOrTuple(ss) == "tuple" \in DOMAIN ss
IsInt(ss) == "int" \in DOMAIN ss

\* A Layer with a tuple state_size, an own output_size and a training argument.
LSTMCell(u) ==
    [class_name |-> "LSTMCell", units |-> u,
     has_call |-> TRUE, has_state_size |-> TRUE,
     isLayer |-> TRUE, has_build |-> TRUE, is_callable |-> TRUE,
     call_has_training_arg |-> TRUE,
     state_size |-> TupleSize(<<u, u + 1>>),
     has_output_size |-> TRUE, output_size |-> u + 2,
     has_get_initial_state |-> FALSE]

\* A Layer with a scalar state_size, no output_size, no training argument.
SimpleCell(u) ==
    [class_name |-> "SimpleCell", units |-> u,
     has_call |-> TRUE, has_state_size |-> TRUE,
     isLayer |-> TRUE, has_build |-> TRUE, is_callable |-> TRUE,
     call_has_training_arg |-> FALSE,
     state_size |-> IntSize(u),
     has_output_size |-> FALSE, output_size |-> None,
     has_get_initial_state |-> FALSE]

\* A duck-typed object: no Layer, yet with build, a training argument in
\* call, get_initial_state, and output_size present but None.
DuckCell(u) ==
    [class_name |-> "DuckCell", units |-> u,
     has_call |-> TRUE, has_state_size |-> TRUE,
     isLayer |-> FALSE, has_build |-> TRUE, is_callable |-> FALSE,
     call_has_training_arg |-> TRUE,
     state_size |-> TupleSize(<<u + 3, u>>),
     has_output_size |-> TRUE, output_size |-> None,
     has_get_initial_state |-> TRUE]

\* A minimal duck-typed object: call and a scalar state_size only.
PlainCell(u) ==
    [class_name |-> "PlainCell", units |-> u,
     has_call |-> TRUE, has_state_size |-> TRUE,
     isLayer |-> FALSE, has_build |-> FALSE, is_callable |-> FALSE,
     call_has_training_arg |-> FALSE,
     state_size |-> IntSize(u),
     has_output_size |-> FALSE, output_size |-> None,
     has_get_initial_state |-> FALSE]

\* Objects that lack a required capability.
NoCall(u) == [PlainCell(u) EXCEPT !.class_name = "NoCall", !.has_call = FALSE]
NoStateSize(u) ==
    [PlainCell(u) EXCEPT !.class_name = "NoStateSize", !.has_state_size = FALSE]
Neither(u) ==
    [PlainCell(u) EXCEPT !.class_name = "Neither", !.has_call = FALSE,
                         !.has_state_size = FALSE]

Instantiate(cls, u) ==
    CASE cls = "LSTMCell" -> LSTMCell(u)
      [] cls = "SimpleCell" -> SimpleCell(u)
      [] cls = "DuckCell" -> DuckCell(u)
      [] cls = "PlainCell" -> PlainCell(u)
      [] cls = "NoCall" -> NoCall(u)
      [] cls = "NoStateSize" -> NoStateSize(u)
      [] cls = "Neither" -> Neither(u)

ValidClasses == {"LSTMCell", "SimpleCell", "DuckCell", "PlainCell"}
InvalidClasses == {"NoCall", "NoStateSize", "Neither"}
ValidCells ==
    {LSTMCell(4), LSTMCell(8), SimpleCell(4), SimpleCell(8), DuckCell(4),
     PlainCell(8)}
Candidates == ValidCells \cup {Instantiate(cls, 4) : cls \in InvalidClasses}

SeqsUpTo(S, n) == UNION {[1..k -> S] : k \in 0..n}

BaseConfigs == {[name |-> "stacked_rnn_cells"]}

\* getattr(cell, "output_size", None)
GetOutputSize(cell) == IF cell.has_output_size THEN cell.output_size ELSE None

(***************************************************************************)
(* __init__ (lines 35-48): the first candidate lacking `call`, else        *)
(* lacking `state_size`, raises ValueError naming that cell and that       *)
(* attribute; otherwise self.cells = cells.                                *)
(***************************************************************************)
RECURSIVE CheckCells(_, _)
CheckCells(cands, i) ==
    IF i > Len(cands) THEN [raised |-> "", cell |-> 0, missing |-> ""]
    ELSE IF ~cands[i].has_call
         THEN [raised |-> "ValueError", cell |-> i, missing |-> "call"]
    ELSE IF ~cands[i].has_state_size
         THEN [raised |-> "ValueError", cell |-> i, missing |-> "state_size"]
    ELSE CheckCells(cands, i + 1)

\* Mutant: self.cells is assigned before the candidates are checked.
StackedRNNCells_init_AssignFirst(cands, kw) ==
    LET chk == CheckCells(cands, 1)
    IN  [raised |-> chk.raised, cell |-> chk.cell, missing |-> chk.missing,
         assigned |-> TRUE, cells |-> cands, kwargs |-> kw]

StackedRNNCells_init(cands, kw) ==
    LET chk == CheckCells(cands, 1)
    IN  [raised |-> chk.raised, cell |-> chk.cell, missing |-> chk.missing,
         assigned |-> chk.raised = "",
         cells |-> IF chk.raised = "" THEN cands ELSE <<>>,
         kwargs |-> kw]

(***************************************************************************)
(* state_size (lines 50-52) and output_size (lines 54-61).                 *)
(***************************************************************************)
state_size(cs) == [i \in 1..Len(cs) |-> cs[i].state_size]

\* Mutant: a list or tuple state_size is looked at before output_size.
ResolveOutputDim_StateFirst(cell) ==
    IF IsListOrTuple(cell.state_size) THEN cell.state_size.tuple[1]
    ELSE IF GetOutputSize(cell) # None THEN cell.output_size
    ELSE cell.state_size.int

\* The precedence of lines 56-61 and, again, of lines 107-112.
ResolveOutputDim(cell) ==
    IF GetOutputSize(cell) # None THEN cell.output_size
    ELSE IF IsListOrTuple(cell.state_size) THEN cell.state_size.tuple[1]
    ELSE cell.state_size.int

\* self.cells[-1] of an empty sequence raises IndexError.
output_size(cs) ==
    IF Len(cs) = 0 THEN [raised |-> "IndexError", value |-> None]
    ELSE [raised |-> "", value |-> ResolveOutputDim(cs[Len(cs)])]

(***************************************************************************)
(* get_initial_state (lines 63-82).                                        *)
(***************************************************************************)
\* ops.zeros((batch_size, d)): a zero-filled tensor of that shape.
Zeros(shape) == [shape |-> shape, fill |-> 0]

\* What a cell's own get_initial_state(batch_size=...) returns.
CellGetInitialState(cell, batch_size) ==
    [own |-> cell.class_name, units |-> cell.units, batch_size |-> batch_size]

\* Mutant: the cell's own get_initial_state is never consulted.
InitialStateOf_NoOwn(cell, batch_size) ==
    LET sizes == IF IsInt(cell.state_size)
                 THEN <<cell.state_size.int>>
                 ELSE cell.state_size.tuple
    IN  [j \in 1..Len(sizes) |-> Zeros(<<batch_size, sizes[j]>>)]

InitialStateOf(cell, batch_size) ==
    IF cell.has_get_initial_state
    THEN CellGetInitialState(cell, batch_size)
    ELSE LET sizes == IF IsInt(cell.state_size)
                      THEN <<cell.state_size.int>>
                      ELSE cell.state_size.tuple
         IN  [j \in 1..Len(sizes) |-> Zeros(<<batch_size, sizes[j]>>)]

get_initial_state(cs, batch_size) ==
    [i \in 1..Len(cs) |-> InitialStateOf(cs[i], batch_size)]

(***************************************************************************)
(* call (lines 84-97).  A tensor is [t |-> n]; an element of `states` is   *)
(* a tensor or a nested value [items |-> <<tensor, ...>>].                 *)
(***************************************************************************)
Tensor(n) == [t |-> n]
Nested(s) == [items |-> s]
StateElems == {Tensor(1), Nested(<<Tensor(1), Tensor(2)>>)}

\* The `states` arguments tried on cells cs: up to one element per cell,
\* and one element per cell followed by a spare one.
StatesFor(cs) ==
    SeqsUpTo(StateElems, Len(cs))
        \cup {Append(s, Tensor(2)) : s \in [1..Len(cs) -> StateElems]}

\* nest.is_nested(states)
IsNested(s) == "items" \in DOMAIN s

\* list(states) if nest.is_nested(states) else [states]   (line 88)
NormalizeState(s) == IF IsNested(s) THEN s.items ELSE <<s>>

NoKwargs == [k \in {} |-> FALSE]
WithTraining(kw, t) == [k \in DOMAIN kw \cup {"training"} |->
                           IF k = "training" THEN t ELSE kw[k]]
WithoutTraining(kw) == [k \in DOMAIN kw \ {"training"} |-> kw[k]]

\* Mutant: the else branch (kwargs.pop) is missing.
ForwardedKwargs_NoPop(cell, kw, training) ==
    IF cell.isLayer /\ cell.call_has_training_arg
    THEN WithTraining(kw, training)
    ELSE kw

\* lines 89-92: what becomes of kwargs before the cell is invoked.
ForwardedKwargs(cell, kw, training) ==
    IF cell.isLayer /\ cell.call_has_training_arg
    THEN WithTraining(kw, training)
    ELSE WithoutTraining(kw)

\* cell.__call__ if callable(cell) else cell.call   (line 93)
CellCallFn(cell) == IF cell.is_callable THEN "__call__" ELSE "call"

\* The cell's own step: it raises TypeError on a keyword its signature does
\* not have, else returns (output, new state) computed from what it got.
CellStep(cell, inputs, st, kw) ==
    IF "training" \in DOMAIN kw /\ ~cell.call_has_training_arg
    THEN [raised |-> "TypeError", output |-> 0, state |-> <<>>]
    ELSE LET bump == IF "training" \in DOMAIN kw /\ kw["training"] THEN 1 ELSE 0
         IN  [raised |-> "",
              output |-> 2 * inputs + cell.units + bump,
              state |-> [j \in 1..Len(st) |-> Tensor(st[j].t + inputs + 1)]]

Min(a, b) == IF a < b THEN a ELSE b

\* zip(self.cells, states): the pairs up to the shorter of the two.
ZipLen(cs, sts) == Min(Len(cs), Len(sts))

\* Mutant: every cell is given the caller's input.
NextInputs_Same(inputs, r) == inputs

\* line 95: the cell's output is the next cell's input.
NextInputs(inputs, r) == r.output

RECURSIVE CallLoop(_, _, _, _, _, _, _, _)
CallLoop(cs, sts, i, inputs, kw, training, new_states, log) ==
    IF i > ZipLen(cs, sts)
    THEN [raised |-> "", output |-> inputs, new_states |-> new_states, log |-> log]
    ELSE LET cell == cs[i]
             st == NormalizeState(sts[i])
             kw2 == ForwardedKwargs(cell, kw, training)
             r == CellStep(cell, inputs, st, kw2)
             entry == [cell |-> i, via |-> CellCallFn(cell), inputs |-> inputs,
                       states |-> st, kwargs |-> kw2]
         IN  IF r.raised # ""
             THEN [raised |-> r.raised, output |-> inputs,
                   new_states |-> new_states, log |-> Append(log, entry)]
             ELSE CallLoop(cs, sts, i + 1, NextInputs(inputs, r), kw2, training,
                           Append(new_states, r.state), Append(log, entry))

call(cs, inputs, sts, training) ==
    CallLoop(cs, sts, 1, inputs, NoKwargs, training, <<>>, <<>>)

(***************************************************************************)
(* build (lines 99-116).  failAt is the position whose build hook raises   *)
(* when invoked in this build() (0: none does).                            *)
(***************************************************************************)
\* Mutant: the last dimension is taken for the batch dimension.
BatchDim_Last(input_shape) == input_shape[Len(input_shape)]

\* nest.flatten(input_shape)[0]
BatchDim(input_shape) == input_shape[1]

\* Mutant: cell.built is not consulted.
InvokesBuild_NoBuiltCheck(cell, isBuilt) == cell.isLayer

\* line 102: the cell's build hook is invoked
InvokesBuild(cell, isBuilt) == cell.isLayer /\ ~isBuilt

\* Mutant: the cell is marked built before its hook is invoked.
BuildHookRaised_MarkedFirst(cb, log, order, i, input_shape) ==
    [raised |-> "BuildError", cellBuilt |-> [cb EXCEPT ![i] = TRUE],
     buildLog |-> [log EXCEPT ![i] = Append(@, [shape |-> input_shape, ok |-> FALSE])],
     invoked |-> Append(order, i), completed |-> FALSE]

\* line 104 raised: the exception leaves build() at once; lines 105-115
\* have not run for this cell.
BuildHookRaised(cb, log, order, i, input_shape) ==
    [raised |-> "BuildError", cellBuilt |-> cb,
     buildLog |-> [log EXCEPT ![i] = Append(@, [shape |-> input_shape, ok |-> FALSE])],
     invoked |-> Append(order, i), completed |-> FALSE]

RECURSIVE BuildLoop(_, _, _, _, _, _, _)
BuildLoop(cs, i, cb, log, order, input_shape, failAt) ==
    IF i > Len(cs)
    THEN [raised |-> "", cellBuilt |-> cb, buildLog |-> log, invoked |-> order,
          completed |-> TRUE]
    ELSE LET cell == cs[i]
             invoke == InvokesBuild(cell, cb[i])
             next_shape == <<BatchDim(input_shape), ResolveOutputDim(cell)>>
         IN  IF invoke /\ failAt = i
             THEN BuildHookRaised(cb, log, order, i, input_shape)
             ELSE IF invoke
             THEN BuildLoop(cs, i + 1, [cb EXCEPT ![i] = TRUE],
                            [log EXCEPT ![i] =
                                Append(@, [shape |-> input_shape, ok |-> TRUE])],
                            Append(order, i), next_shape, failAt)
             ELSE BuildLoop(cs, i + 1, cb, log, order, next_shape, failAt)

build(cs, cb, log, input_shape, failAt) ==
    BuildLoop(cs, 1, cb, log, <<>>, input_shape, failAt)

(***************************************************************************)
(* get_config (lines 118-124) and from_config (lines 126-135).  A config   *)
(* is a mapping from keys to values.                                       *)
(***************************************************************************)
\* {**a, **b}
Merge(a, b) == [k \in DOMAIN a \cup DOMAIN b |->
                   IF k \in DOMAIN b THEN b[k] ELSE a[k]]

\* Mutant: the entry is read, not removed.
Pop_Keep(m, key) == m

\* the mapping left by mapping.pop(key)
Pop(m, key) == [k \in DOMAIN m \ {key} |-> m[k]]

\* serialization_lib.serialize_keras_object(cell): type identifier and
\* reconstruction configuration.
serialize_keras_object(cell) ==
    [class_name |-> cell.class_name, config |-> [units |-> cell.units]]

\* The classes the registry knows without custom_objects.
BuiltinClasses == {"LSTMCell", "SimpleCell"}
CustomClasses == {"DuckCell", "PlainCell"}

\* serialization_lib.deserialize_keras_object(cell_config, custom_objects):
\* a new instance of the registered class, or a failure.
deserialize_keras_object(desc, custom_objects) ==
    IF desc.class_name \in BuiltinClasses \cup custom_objects
    THEN [ok |-> TRUE, cell |-> Instantiate(desc.class_name, desc.config.units)]
    ELSE [ok |-> FALSE, cell |-> desc]

\* Layer.get_config(): the base configuration of the composite.
LayerGetConfig(kw) == [k \in {"name", "trainable"} |->
                          IF k = "name" THEN kw["name"] ELSE TRUE]

RECURSIVE SerializeCells(_, _, _)
SerializeCells(cs, i, acc) ==
    IF i > Len(cs) THEN acc
    ELSE SerializeCells(cs, i + 1, Append(acc, serialize_keras_object(cs[i])))

get_config(cs, kw) ==
    Merge(LayerGetConfig(kw), [k \in {"cells"} |-> SerializeCells(cs, 1, <<>>)])

\* Mutant: a descriptor that fails to reconstruct is skipped.
RECURSIVE DeserializeCells_SkipFailed(_, _, _, _)
DeserializeCells_SkipFailed(descs, custom_objects, i, acc) ==
    IF i > Len(descs) THEN [ok |-> TRUE, cells |-> acc]
    ELSE LET d == deserialize_keras_object(descs[i], custom_objects)
         IN  DeserializeCells_SkipFailed(descs, custom_objects, i + 1,
                                         IF d.ok THEN Append(acc, d.cell) ELSE acc)

RECURSIVE DeserializeCells(_, _, _, _)
DeserializeCells(descs, custom_objects, i, acc) ==
    IF i > Len(descs) THEN [ok |-> TRUE, cells |-> acc]
    ELSE LET d == deserialize_keras_object(descs[i], custom_objects)
         IN  IF ~d.ok THEN [ok |-> FALSE, cells |-> acc]
             ELSE DeserializeCells(descs, custom_objects, i + 1, Append(acc, d.cell))

NoComposite == [assigned |-> FALSE, cells |-> <<>>, kwargs |-> <<>>]

\* The result: what was raised, the caller's mapping afterwards, and the
\* composite returned.
from_config(cfg, custom_objects) ==
    IF "cells" \notin DOMAIN cfg
    THEN [raised |-> "KeyError", config |-> cfg, composite |-> NoComposite]
    ELSE LET rest == Pop(cfg, "cells")
             d == DeserializeCells(cfg["cells"], custom_objects, 1, <<>>)
         IN  IF ~d.ok
             THEN [raised |-> "DeserializeError", config |-> rest,
                   composite |-> NoComposite]
             ELSE LET c == StackedRNNCells_init(d.cells, rest)
                  IN  [raised |-> c.raised, config |-> rest,
                       composite |-> IF c.assigned
                                     THEN [assigned |-> TRUE, cells |-> c.cells,
                                           kwargs |-> c.kwargs]
                                     ELSE NoComposite]

(***************************************************************************)
(* Actions                                                                 *)
(***************************************************************************)
NoRet == [op |-> "none"]
NoConfig == [absent |-> TRUE]

Init ==
    /\ status = "new"
    /\ cells = <<>>
    /\ cellsAssigned = FALSE
    /\ kwargs = <<>>
    /\ cellBuilt = <<>>
    /\ built = FALSE
    /\ buildLog = <<>>
    /\ buildCount = 0
    /\ stepLog = <<>>
    /\ config = NoConfig
    /\ restored = NoComposite
    /\ ret = NoRet

Construct ==
    /\ status = "new"
    /\ \E cands \in SeqsUpTo(Candidates, MaxCells), kw \in BaseConfigs :
          LET r == StackedRNNCells_init(cands, kw)
          IN  /\ status' = IF r.raised = "" THEN "ok" ELSE "error"
              /\ cells' = r.cells
              /\ cellsAssigned' = r.assigned
              /\ kwargs' = kw
              /\ cellBuilt' = [i \in 1..Len(r.cells) |-> FALSE]
              /\ buildLog' = [i \in 1..Len(r.cells) |-> <<>>]
              /\ ret' = [op |-> "__init__", raised |-> r.raised, cell |-> r.cell,
                         missing |-> r.missing, candidates |-> cands]
    /\ UNCHANGED <<built, buildCount, stepLog, config, restored>>

OutputSize ==
    /\ status = "ok"
    /\ ret' = [op |-> "output_size", raised |-> output_size(cells).raised,
               value |-> output_size(cells).value]
    /\ UNCHANGED <<status, cells, cellsAssigned, kwargs, cellBuilt, built,
                   buildLog, buildCount, stepLog, config, restored>>

GetInitialState ==
    /\ status = "ok"
    /\ \E batch_size \in 1..MaxBatch :
          ret' = [op |-> "get_initial_state", batch_size |-> batch_size,
                  value |-> get_initial_state(cells, batch_size)]
    /\ UNCHANGED <<status, cells, cellsAssigned, kwargs, cellBuilt, built,
                   buildLog, buildCount, stepLog, config, restored>>

Call ==
    /\ status = "ok"
    /\ \E inputs \in Inputs, training \in Trainings,
          sts \in StatesFor(cells) :
          LET r == call(cells, inputs, sts, training)
          IN  /\ stepLog' = r.log
              /\ ret' = [op |-> "call", raised |-> r.raised, inputs |-> inputs,
                         states |-> sts, training |-> training,
                         output |-> r.output, new_states |-> r.new_states]
    /\ UNCHANGED <<status, cells, cellsAssigned, kwargs, cellBuilt, built,
                   buildLog, buildCount, config, restored>>

Build ==
    /\ status = "ok"
    /\ buildCount < MaxBuilds
    /\ \E input_shape \in InputShapes, failAt \in 0..Len(cells) :
          LET r == build(cells, cellBuilt, buildLog, input_shape, failAt)
          IN  /\ cellBuilt' = r.cellBuilt
              /\ buildLog' = r.buildLog
              /\ built' = IF r.completed THEN TRUE ELSE built
              /\ ret' = [op |-> "build", raised |-> r.raised,
                         input_shape |-> input_shape, failAt |-> failAt,
                         invoked |-> r.invoked, builtBefore |-> cellBuilt,
                         logBefore |-> buildLog]
    /\ buildCount' = buildCount + 1
    /\ UNCHANGED <<status, cells, cellsAssigned, kwargs, stepLog, config, restored>>

GetConfig ==
    /\ status = "ok"
    /\ config' = get_config(cells, kwargs)
    /\ ret' = [op |-> "get_config", value |-> get_config(cells, kwargs)]
    /\ UNCHANGED <<status, cells, cellsAssigned, kwargs, cellBuilt, built,
                   buildLog, buildCount, stepLog, restored>>

FromConfig ==
    /\ config # NoConfig
    /\ \E custom_objects \in SUBSET CustomClasses :
          LET r == from_config(config, custom_objects)
          IN  /\ config' = r.config
              /\ restored' = r.composite
              /\ ret' = [op |-> "from_config", raised |-> r.raised,
                         given |-> config, custom_objects |-> custom_objects]
    /\ UNCHANGED <<status, cells, cellsAssigned, kwargs, cellBuilt, built,
                   buildLog, buildCount, stepLog>>

\* Construction and the two read-only properties.
NextQuery ==
    \/ Construct
    \/ OutputSize
    \/ GetInitialState

SpecQuery == Init /\ [][NextQuery]_vars

\* Construction and the per-timestep call.
NextCall ==
    \/ Construct
    \/ Call

SpecCall == Init /\ [][NextCall]_vars

\* Construction and build.
NextBuild ==
    \/ Construct
    \/ Build

SpecBuild == Init /\ [][NextBuild]_vars

\* Construction, serialization and deserialization.
NextConfig ==
    \/ Construct
    \/ GetConfig
    \/ FromConfig

SpecConfig == Init /\ [][NextConfig]_vars

Next ==
    \/ Construct
    \/ OutputSize
    \/ GetInitialState
    \/ Call
    \/ Build
    \/ GetConfig
    \/ FromConfig

Spec == Init /\ [][Next]_vars

(***************************************************************************)
(* Properties                                                              *)
(***************************************************************************)

\* C1: construction from candidates of which one lacks `call` or
\* `state_size` raises an error naming an offending cell and a capability
\* that cell lacks, self.cells is never assigned, and no build hook or step
\* has been invoked; when every candidate has both, construction succeeds
\* and self.cells is the candidates in the given order.
C1_ConstructionChecksContract ==
    /\ ret.op = "__init__" =>
          LET cands == ret.candidates
              lacking == {i \in 1..Len(cands) :
                             ~cands[i].has_call \/ ~cands[i].has_state_size}
          IN  IF lacking # {}
              THEN /\ status = "error"
                   /\ ret.raised = "ValueError"
                   /\ ret.cell \in lacking
                   /\ ret.missing \in {"call", "state_size"}
                   /\ ret.missing = "call" => ~cands[ret.cell].has_call
                   /\ ret.missing = "state_size" => ~cands[ret.cell].has_state_size
              ELSE /\ status = "ok"
                   /\ ret.raised = ""
                   /\ cellsAssigned
                   /\ cells = cands
    /\ status = "error" =>
          /\ ~cellsAssigned
          /\ buildCount = 0
          /\ \A i \in DOMAIN buildLog : buildLog[i] = <<>>
          /\ stepLog = <<>>

C1_Witness ==
    /\ status = "error"
    /\ Len(ret.candidates) = 2
    /\ ret.candidates[1] = LSTMCell(4)
    /\ ret.candidates[2] = NoStateSize(4)
    /\ ret.cell = 2
    /\ ret.missing = "state_size"

\* C2: output_size is decided by the last cell alone: its own output_size
\* if present and not None, else the first element of a list/tuple
\* state_size, else the scalar state_size.
C2_OutputSizePrecedence ==
    (ret.op = "output_size" /\ Len(cells) >= 1) =>
        LET last == cells[Len(cells)]
        IN  /\ ret.raised = ""
            /\ IF last.has_output_size /\ last.output_size # None
               THEN ret.value = last.output_size
               ELSE IF IsListOrTuple(last.state_size)
               THEN ret.value = last.state_size.tuple[1]
               ELSE ret.value = last.state_size.int

C2_Witness ==
    /\ ret.op = "output_size"
    /\ cells = <<SimpleCell(8), LSTMCell(4)>>
    /\ ret.value = 6

\* C3: get_initial_state(batch_size) has one element per cell, in order:
\* the cell's own get_initial_state result where the cell has one, else one
\* zero tensor of shape (batch_size, d) per dimension d of state_size, a
\* scalar state_size counting as one dimension.
C3_InitialStatePerCell ==
    ret.op = "get_initial_state" =>
        /\ Len(ret.value) = Len(cells)
        /\ \A i \in 1..Len(cells) :
              LET c == cells[i]
                  b == ret.batch_size
              IN  IF c.has_get_initial_state
                  THEN ret.value[i] = CellGetInitialState(c, b)
                  ELSE IF IsInt(c.state_size)
                  THEN ret.value[i] = <<Zeros(<<b, c.state_size.int>>)>>
                  ELSE /\ Len(ret.value[i]) = Len(c.state_size.tuple)
                       /\ \A j \in 1..Len(c.state_size.tuple) :
                             ret.value[i][j] = Zeros(<<b, c.state_size.tuple[j]>>)

C3_Witness ==
    /\ ret.op = "get_initial_state"
    /\ ret.batch_size = 3
    /\ cells = <<SimpleCell(4), SimpleCell(8)>>
    /\ ret.value = << <<Zeros(<<3, 4>>)>>, <<Zeros(<<3, 8>>)>> >>

C5_Original ==
    ret.op = "call" =>
        /\ ret.raised = ""
        /\ \A j \in 1..Len(stepLog) :
              LET e == stepLog[j]
                  c == cells[e.cell]
              IN  /\ "training" \in DOMAIN e.kwargs <=> c.call_has_training_arg
                  /\ "training" \in DOMAIN e.kwargs =>
                        e.kwargs["training"] = ret.training

\* C5 (amended): each cell is given `training` (with value t) iff it is a
\* Layer whose step signature has a training argument; every other cell,
\* one that is no Layer included, is invoked without `training`, and the
\* call does not raise because of the flag.
C5_TrainingForwarded ==
    ret.op = "call" =>
        /\ ret.raised = ""
        /\ \A j \in 1..Len(stepLog) :
              LET e == stepLog[j]
                  c == cells[e.cell]
              IN  /\ "training" \in DOMAIN e.kwargs <=>
                        (c.isLayer /\ c.call_has_training_arg)
                  /\ "training" \in DOMAIN e.kwargs =>
                        e.kwargs["training"] = ret.training

C5_Witness ==
    /\ ret.op = "call"
    /\ ret.training = TRUE
    /\ cells = <<SimpleCell(4), LSTMCell(8)>>
    /\ Len(stepLog) = 2
    /\ "training" \notin DOMAIN stepLog[1].kwargs
    /\ "training" \in DOMAIN stepLog[2].kwargs
    /\ stepLog[2].kwargs["training"] = TRUE
    /\ ret.raised = ""

\* C6 as stated: a build that starts with no cell built (and in which no
\* hook raises) invokes, in sequence order, the hook of every cell that
\* has a build hook, exactly once, with the running input shape, and marks
\* that cell built; the running shape is the caller's for the first cell
\* and (batch dimension, resolved output dimension of the preceding cell)
\* afterwards; the composite is then built.
C6_Original ==
    (ret.op = "build" /\ ret.raised = ""
        /\ \A i \in 1..Len(cells) : ~ret.builtBefore[i]) =>
        LET dim(c) == IF c.has_output_size /\ c.output_size # None
                      THEN c.output_size
                      ELSE IF IsListOrTuple(c.state_size)
                      THEN c.state_size.tuple[1]
                      ELSE c.state_size.int
            running(i) == IF i = 1 THEN ret.input_shape
                          ELSE <<ret.input_shape[1], dim(cells[i - 1])>>
        IN  /\ \A i \in 1..Len(cells) :
                  cells[i].has_build =>
                      /\ buildLog[i] = Append(ret.logBefore[i],
                                              [shape |-> running(i), ok |-> TRUE])
                      /\ cellBuilt[i]
            /\ {ret.invoked[j] : j \in 1..Len(ret.invoked)} =
                  {i \in 1..Len(cells) : cells[i].has_build}
            /\ \A j, k \in 1..Len(ret.invoked) :
                  j < k => ret.invoked[j] < ret.invoked[k]
            /\ built

\* C6 (amended): a build that starts with no cell built (and in which no
\* hook raises) invokes, in sequence order, the hook of every cell that is
\* a Layer, exactly once, with the running input shape, and marks that cell
\* built; a cell that is no Layer is skipped even if it has a build hook;
\* the running shape is the caller's for the first cell and (batch
\* dimension, resolved output dimension of the preceding cell) afterwards;
\* the composite is then built.
C6_BuildPropagatesShapes ==
    (ret.op = "build" /\ ret.raised = ""
        /\ \A i \in 1..Len(cells) : ~ret.builtBefore[i]) =>
        LET dim(c) == IF c.has_output_size /\ c.output_size # None
                      THEN c.output_size
                      ELSE IF IsListOrTuple(c.state_size)
                      THEN c.state_size.tuple[1]
                      ELSE c.state_size.int
            running(i) == IF i = 1 THEN ret.input_shape
                          ELSE <<ret.input_shape[1], dim(cells[i - 1])>>
        IN  /\ \A i \in 1..Len(cells) :
                  IF cells[i].isLayer
                  THEN /\ buildLog[i] = Append(ret.logBefore[i],
                                               [shape |-> running(i), ok |-> TRUE])
                       /\ cellBuilt[i]
                  ELSE /\ buildLog[i] = ret.logBefore[i]
                       /\ ~cellBuilt[i]
            /\ {ret.invoked[j] : j \in 1..Len(ret.invoked)} =
                  {i \in 1..Len(cells) : cells[i].isLayer}
            /\ \A j, k \in 1..Len(ret.invoked) :
                  j < k => ret.invoked[j] < ret.invoked[k]
            /\ built

C6_Witness ==
    /\ ret.op = "build"
    /\ ret.raised = ""
    /\ ret.builtBefore = <<FALSE, FALSE>>
    /\ cells = <<LSTMCell(4), SimpleCell(8)>>
    /\ ret.input_shape = <<2, 5>>
    /\ ret.invoked = <<1, 2>>
    /\ buildLog[1] = <<[shape |-> <<2, 5>>, ok |-> TRUE]>>
    /\ buildLog[2] = <<[shape |-> <<2, 6>>, ok |-> TRUE]>>
    /\ built

\* C7 as stated: call invokes every cell exactly once, in order; the first
\* cell gets the caller's input, cell i the output of cell i-1, each with
\* element i of `states` normalized to a list; the result is the last
\* cell's output and the list of the cells' new states, len(cells) long.
C7_Original ==
    ret.op = "call" =>
        /\ ret.raised = ""
        /\ Len(stepLog) = Len(cells)
        /\ Len(ret.new_states) = Len(cells)
        /\ \A i \in 1..Len(cells) :
              LET e == stepLog[i]
                  s == ret.states[i]
                  out(j) == CellStep(cells[j], stepLog[j].inputs,
                                     stepLog[j].states, stepLog[j].kwargs)
              IN  /\ e.cell = i
                  /\ e.inputs = IF i = 1 THEN ret.inputs ELSE out(i - 1).output
                  /\ e.states = IF IsNested(s) THEN s.items ELSE <<s>>
                  /\ ret.new_states[i] = out(i).state
                  /\ i = Len(cells) => ret.output = out(i).output

\* C7 (amended): as stated when `states` has at least len(cells) elements;
\* in general call pairs cells and states up to the shorter of the two, so
\* with n = min(len(cells), len(states)) exactly the first n cells are
\* invoked, once each and in order, and the returned State has n elements.
C7_CallThreadsState ==
    ret.op = "call" =>
        LET n == IF Len(ret.states) < Len(cells) THEN Len(ret.states)
                 ELSE Len(cells)
        IN  /\ ret.raised = ""
            /\ Len(ret.states) >= Len(cells) => n = Len(cells)
            /\ Len(stepLog) = n
            /\ Len(ret.new_states) = n
            /\ n = 0 => ret.output = ret.inputs
            /\ \A i \in 1..n :
                  LET e == stepLog[i]
                      s == ret.states[i]
                      out(j) == CellStep(cells[j], stepLog[j].inputs,
                                         stepLog[j].states, stepLog[j].kwargs)
                  IN  /\ e.cell = i
                      /\ e.inputs = IF i = 1 THEN ret.inputs ELSE out(i - 1).output
                      /\ e.states = IF IsNested(s) THEN s.items ELSE <<s>>
                      /\ ret.new_states[i] = out(i).state
                      /\ i = n => ret.output = out(i).output

C7_Witness ==
    /\ ret.op = "call"
    /\ cells = <<LSTMCell(4), PlainCell(8)>>
    /\ ret.inputs = 1
    /\ ret.training = FALSE
    /\ ret.states = <<Nested(<<Tensor(1), Tensor(2)>>), Tensor(1)>>
    /\ Len(stepLog) = 2
    /\ stepLog[2].inputs = 6
    /\ stepLog[1].states = <<Tensor(1), Tensor(2)>>
    /\ stepLog[2].states = <<Tensor(1)>>
    /\ ret.output = 20
    /\ ret.new_states = << <<Tensor(3), Tensor(4)>>, <<Tensor(8)>> >>

\* C8: get_config()['cells'] holds the serialization of cell i at position
\* i; from_config on it either reconstructs every descriptor and returns a
\* composite with as many cells, cell i reconstructed from descriptor i
\* (hence of the class and configuration of the original cell i), or, when
\* some descriptor fails to reconstruct, raises and returns no composite.
C8_ConfigRoundTrip ==
    (ret.op = "from_config" /\ "cells" \in DOMAIN ret.given) =>
        LET descs == ret.given["cells"]
            known == BuiltinClasses \cup ret.custom_objects
        IN  /\ Len(descs) = Len(cells)
            /\ \A i \in 1..Len(cells) :
                  descs[i] = serialize_keras_object(cells[i])
            /\ IF \A i \in 1..Len(descs) : descs[i].class_name \in known
               THEN /\ ret.raised = ""
                    /\ restored.assigned
                    /\ Len(restored.cells) = Len(cells)
                    /\ \A i \in 1..Len(cells) :
                          /\ restored.cells[i] =
                                deserialize_keras_object(descs[i],
                                                         ret.custom_objects).cell
                          /\ restored.cells[i].class_name = cells[i].class_name
                          /\ restored.cells[i].units = cells[i].units
               ELSE /\ ret.raised # ""
                    /\ ~restored.assigned
                    /\ restored.cells = <<>>

C8_Witness ==
    /\ ret.op = "from_config"
    /\ ret.raised = ""
    /\ cells = <<DuckCell(4), LSTMCell(8)>>
    /\ restored.assigned
    /\ restored.cells = <<DuckCell(4), LSTMCell(8)>>

\* C10: from_config removes `cells` from the mapping it is given, also when
\* a cell then fails to reconstruct, and leaves the other entries as they
\* were; these are what the constructor gets; from_config on a mapping
\* without `cells` raises a missing-key error and returns no composite.
C10_FromConfigConsumesCells ==
    ret.op = "from_config" =>
        /\ "cells" \notin DOMAIN config
        /\ DOMAIN config = DOMAIN ret.given \ {"cells"}
        /\ \A k \in DOMAIN config : config[k] = ret.given[k]
        /\ "cells" \notin DOMAIN ret.given =>
              (ret.raised = "KeyError" /\ ~restored.assigned)
        /\ ret.raised = "" =>
              (restored.assigned /\ restored.kwargs = config)

C10_Witness ==
    /\ ret.op = "from_config"
    /\ ret.raised = "KeyError"
    /\ "cells" \notin DOMAIN ret.given
    /\ "name" \in DOMAIN config
    /\ ~restored.assigned

\* C9: when the build hook of the cell at position k raises, build raises;
\* every cell before k whose hook ran is marked built, the cell at k is not
\* marked built, no hook of a cell after k is invoked, and the composite is
\* not marked built.
C9_BuildFailureLeavesPartial ==
    (ret.op = "build" /\ ret.raised # "") =>
        LET k == ret.failAt
        IN  /\ ret.raised = "BuildError"
            /\ k \in 1..Len(cells)
            /\ Len(ret.invoked) >= 1 /\ ret.invoked[Len(ret.invoked)] = k
            /\ \A j \in 1..(Len(ret.invoked) - 1) :
                  /\ ret.invoked[j] < k
                  /\ cellBuilt[ret.invoked[j]]
            /\ buildLog[k] = Append(ret.logBefore[k],
                                    [shape |-> buildLog[k][Len(buildLog[k])].shape,
                                     ok |-> FALSE])
            /\ ~cellBuilt[k]
            /\ \A i \in (k + 1)..Len(cells) :
                  /\ buildLog[i] = ret.logBefore[i]
                  /\ cellBuilt[i] = ret.builtBefore[i]
            /\ ~built

C9_Witness ==
    /\ ret.op = "build"
    /\ ret.raised = "BuildError"
    /\ cells = <<LSTMCell(4), SimpleCell(8)>>
    /\ ret.failAt = 2
    /\ ret.invoked = <<1, 2>>
    /\ cellBuilt = <<TRUE, FALSE>>
    /\ ~built

====
